---- MODULE Spec2Model ----
(***************************************************************************)
(* Model of the Triton docker-machine driver (src/driver.go): the image    *)
(* reference resolution done by Driver.PreCreateCheck, the state mapping   *)
(* done by Driver.GetState, and the lifecycle operations of the Driver.    *)
(*                                                                         *)
(* Go strings are modelled as sequences of one-character strings, so that  *)
(* strings.SplitN is computed, not assumed.  The remote CloudAPI is the    *)
(* environment: its image catalog and its set of instances are state, its  *)
(* transport failures and the instance record it answers with are inputs   *)
(* of the operation that makes the call.                                   *)
(***************************************************************************)
EXTENDS Integers, Sequences, FiniteSets, TLC

VARIABLES
  TritonImage,      \* Driver.TritonImage     (driver.go:58)
  TritonPackage,    \* Driver.TritonPackage   (driver.go:59)
  TritonMachineId,  \* Driver.TritonMachineId (driver.go:62)
  IPAddress,        \* BaseDriver.IPAddress   (driver.go:236, 442)
  catalog,          \* the remote image catalog, in list-response order
  instances,        \* the remote's instances: identifier -> "none", "live", "deleted"
  pc,               \* "idle", or "waiting" while Create polls for the address
  attempts,         \* polls made by the address wait of the running Create
  pre,              \* the driver's fields when the last operation began
  last,             \* what the last operation did and returned
  again,            \* the last operation repeated the one before it and the remote
                    \* answered both alike
  validated,        \* the latest PreCreateCheck returned nil
  TritonAccount,             \* driver.go:50
  TritonKeyPath,             \* driver.go:51
  TritonKeyMaterial,         \* driver.go:52
  TritonKeyMaterialDecoded,  \* driver.go:53
  TritonKeyId,               \* driver.go:54
  TritonUrl,                 \* driver.go:55
  opts                       \* the flags handed to SetConfigFromFlags

\* the access parameters and the flags they were read from
accessVars == <<TritonAccount, TritonKeyPath, TritonKeyMaterial, TritonKeyMaterialDecoded,
                TritonKeyId, TritonUrl, opts>>

vars == <<TritonImage, TritonPackage, TritonMachineId, IPAddress, catalog, instances,
          pc, attempts, pre, last, again, validated, accessVars>>

(***************************************************************************)
(* Bounds and input alphabets                                              *)
(***************************************************************************)
MaxImages == 2

\* polls of the address wait (mcnutils.WaitFor's attempt budget, cut down)
MaxAttempts == 2

EmptyStr == <<>>

\* exact identifiers are opaque: two share the short id "d", one has no hyphen and
\* reads like a name
ImageIds == { <<"d", "-", "1">>, <<"d", "-", "2">>, <<"e">> }
ImageNames == { <<"d">>, <<"e">> }
ImageVersions == { <<"1">>, <<"2">> }
PublishedTimes == {1, 2}

\* what a user may pass as --triton-image: a name or short id, name@version, name@,
\* and a string that is both an exact identifier and a name
ImageRefs == { <<"d">>, <<"d", "@", "1">>, <<"d", "@">>, <<"e">> }

PackageRefs == { <<"k", "4">> }

MachineIds == { <<"m", "1">>, <<"m", "2">> }

Addresses == { <<"1">>, <<"2">> }

\* the vocabulary of GetState's switch, and strings outside it
KnownStates == {"configured", "provisioning", "failed", "receiving", "running",
                "shutting_down", "stopping", "down", "stopped"}

OtherStates == {"deleted", "bogus-state"}

\* what the remote may answer to GetInstance
InstanceRecords == [State : KnownStates \cup OtherStates, PrimaryIP : {EmptyStr} \cup Addresses]

NoRecord == [State |-> "none", PrimaryIP |-> EmptyStr]

Images == [ID : ImageIds, Name : ImageNames, Version : ImageVersions, PublishedAt : PublishedTimes]

RECURSIVE SeqsUpTo(_, _)
SeqsUpTo(S, n) ==
  IF n = 0 THEN { <<>> }
  ELSE LET shorter == SeqsUpTo(S, n - 1)
       IN shorter \cup { Append(s, x) : s \in { t \in shorter : Len(t) = n - 1 }, x \in S }

\* exact identifiers are unique in a catalog
DistinctIds(cat) == \A i, j \in 1..Len(cat) : cat[i].ID = cat[j].ID => i = j

Catalogs == { cat \in SeqsUpTo(Images, MaxImages) : DistinctIds(cat) }

(***************************************************************************)
(* Strings                                                                 *)
(***************************************************************************)
RECURSIVE IndexFrom(_, _, _)
IndexFrom(s, ch, i) ==
  IF i > Len(s) THEN 0
  ELSE IF s[i] = ch THEN i
  ELSE IndexFrom(s, ch, i + 1)

\* strings.SplitN(s, sep, 2) for a one-character separator
SplitN2(s, sep) ==
  LET i == IndexFrom(s, sep, 1)
  IN IF i = 0 THEN << s >>
     ELSE << SubSeq(s, 1, i - 1), SubSeq(s, i + 1, Len(s)) >>

\* mutant: the identifier is not cut at its first hyphen
uuidToShortIdWhole(s) == s

uuidToShortId(s) == SplitN2(s, "-")[1]

(***************************************************************************)
(* Driver.PreCreateCheck                                                   *)
(***************************************************************************)
NoErr == "nil"

Call(api, arg, ok) == [api |-> api, arg |-> arg, ok |-> ok]

\* driver.go:354-358
ImageName(image) == SplitN2(image, "@")[1]

ImageVersion(image) ==
  LET nameVersion == SplitN2(image, "@")
  IN IF Len(nameVersion) = 2 THEN nameVersion[2] ELSE EmptyStr

\* mutant: the version is left out of the list query
ListImagesInputNameOnly(image) ==
  IF ImageVersion(image) # EmptyStr
  THEN [State |-> "all", Name |-> ImageName(image), Version |-> EmptyStr]
  ELSE [State |-> "all", Name |-> EmptyStr, Version |-> EmptyStr]

\* driver.go:360-365
ListImagesInput(image) ==
  IF ImageVersion(image) # EmptyStr
  THEN [State |-> "all", Name |-> ImageName(image), Version |-> ImageVersion(image)]
  ELSE [State |-> "all", Name |-> EmptyStr, Version |-> EmptyStr]

\* the remote's answer to GetImage: the entry with that exact identifier exists
ImagesGet(cat, id) == \E i \in 1..Len(cat) : cat[i].ID = id

\* the remote's answer to ListImages: the entries that pass the filter, in order
MatchesFilter(e, input) ==
  /\ input.Name = EmptyStr \/ e.Name = input.Name
  /\ input.Version = EmptyStr \/ e.Version = input.Version

ImagesList(cat, input) == SelectSeq(cat, LAMBDA e : MatchesFilter(e, input))

\* driver.go:371-379
NameMatches(images, name) == SelectSeq(images, LAMBDA image : name = image.Name)

ShortIdMatches(images, name) == SelectSeq(images, LAMBDA image : name = uuidToShortId(image.ID))

\* mutant: a timestamp equal to the candidate's counts as later
BeforeOrEqual(t, u) == t <= u

\* time.Time.Before
Before(t, u) == t < u

\* driver.go:384-393
RECURSIVE MostRecentLoop(_, _)
MostRecentLoop(mostRecent, rest) ==
  IF rest = <<>> THEN mostRecent
  ELSE MostRecentLoop(IF Before(mostRecent.PublishedAt, Head(rest).PublishedAt)
                      THEN Head(rest) ELSE mostRecent,
                      Tail(rest))

\* mutant: the first name match is taken, timestamps are not compared
MostRecentIsFirst(nameMatches) == nameMatches[1]

MostRecent(nameMatches) == MostRecentLoop(nameMatches[1], Tail(nameMatches))

\* mutant: a single short-id match is preferred to the name matches
ResolveImageShortIdFirst(images, image) ==
  LET name == ImageName(image)
      nameMatches == NameMatches(images, name)
      shortIdMatches == ShortIdMatches(images, name)
  IN IF Len(shortIdMatches) = 1
     THEN [ok |-> TRUE, id |-> shortIdMatches[1].ID, log |-> "exact short id match"]
     ELSE IF Len(nameMatches) = 1
     THEN [ok |-> TRUE, id |-> nameMatches[1].ID, log |-> "exact name match"]
     ELSE IF Len(nameMatches) > 1
     THEN [ok |-> TRUE, id |-> MostRecent(nameMatches).ID, log |-> "most recent name match"]
     ELSE [ok |-> FALSE, id |-> image,
           log |-> IF Len(shortIdMatches) > 1 THEN "ambiguous short id" ELSE "none"]

\* mutant: with no match at all the reference is kept and the check goes on
ResolveImageNoMatchPasses(images, image) ==
  LET name == ImageName(image)
      nameMatches == NameMatches(images, name)
      shortIdMatches == ShortIdMatches(images, name)
  IN IF Len(nameMatches) = 1
     THEN [ok |-> TRUE, id |-> nameMatches[1].ID, log |-> "exact name match"]
     ELSE IF Len(nameMatches) > 1
     THEN [ok |-> TRUE, id |-> MostRecent(nameMatches).ID, log |-> "most recent name match"]
     ELSE IF Len(shortIdMatches) = 1
     THEN [ok |-> TRUE, id |-> shortIdMatches[1].ID, log |-> "exact short id match"]
     ELSE [ok |-> Len(shortIdMatches) = 0, id |-> image,
           log |-> IF Len(shortIdMatches) > 1 THEN "ambiguous short id" ELSE "none"]

\* mutant: a single short-id match puts the short id, not the identifier, in place
ResolveImageKeepsShortId(images, image) ==
  LET name == ImageName(image)
      nameMatches == NameMatches(images, name)
      shortIdMatches == ShortIdMatches(images, name)
  IN IF Len(nameMatches) = 1
     THEN [ok |-> TRUE, id |-> nameMatches[1].ID, log |-> "exact name match"]
     ELSE IF Len(nameMatches) > 1
     THEN [ok |-> TRUE, id |-> MostRecent(nameMatches).ID, log |-> "most recent name match"]
     ELSE IF Len(shortIdMatches) = 1
     THEN [ok |-> TRUE, id |-> uuidToShortId(shortIdMatches[1].ID),
           log |-> "exact short id match"]
     ELSE [ok |-> FALSE, id |-> image,
           log |-> IF Len(shortIdMatches) > 1 THEN "ambiguous short id" ELSE "none"]

\* mutant: several short-id matches are an ambiguity whatever the name matches are
ResolveImageAmbiguityFirst(images, image) ==
  LET name == ImageName(image)
      nameMatches == NameMatches(images, name)
      shortIdMatches == ShortIdMatches(images, name)
  IN IF Len(shortIdMatches) > 1
     THEN [ok |-> FALSE, id |-> image, log |-> "ambiguous short id"]
     ELSE IF Len(nameMatches) = 1
     THEN [ok |-> TRUE, id |-> nameMatches[1].ID, log |-> "exact name match"]
     ELSE IF Len(nameMatches) > 1
     THEN [ok |-> TRUE, id |-> MostRecent(nameMatches).ID, log |-> "most recent name match"]
     ELSE IF Len(shortIdMatches) = 1
     THEN [ok |-> TRUE, id |-> shortIdMatches[1].ID, log |-> "exact short id match"]
     ELSE [ok |-> FALSE, id |-> image, log |-> "none"]

\* mutant: a single name match passes the check but the reference is left as given
ResolveImageKeepsName(images, image) ==
  LET name == ImageName(image)
      nameMatches == NameMatches(images, name)
      shortIdMatches == ShortIdMatches(images, name)
  IN IF Len(nameMatches) = 1
     THEN [ok |-> TRUE, id |-> image, log |-> "exact name match"]
     ELSE IF Len(nameMatches) > 1
     THEN [ok |-> TRUE, id |-> MostRecent(nameMatches).ID, log |-> "most recent name match"]
     ELSE IF Len(shortIdMatches) = 1
     THEN [ok |-> TRUE, id |-> shortIdMatches[1].ID, log |-> "exact short id match"]
     ELSE [ok |-> FALSE, id |-> image,
           log |-> IF Len(shortIdMatches) > 1 THEN "ambiguous short id" ELSE "none"]

\* driver.go:380-404: the identifier chosen from a list response, or a failure
ResolveImage(images, image) ==
  LET name == ImageName(image)
      nameMatches == NameMatches(images, name)
      shortIdMatches == ShortIdMatches(images, name)
  IN IF Len(nameMatches) = 1
     THEN [ok |-> TRUE, id |-> nameMatches[1].ID, log |-> "exact name match"]
     ELSE IF Len(nameMatches) > 1
     THEN [ok |-> TRUE, id |-> MostRecent(nameMatches).ID, log |-> "most recent name match"]
     ELSE IF Len(shortIdMatches) = 1
     THEN [ok |-> TRUE, id |-> shortIdMatches[1].ID, log |-> "exact short id match"]
     ELSE [ok |-> FALSE, id |-> image,
           log |-> IF Len(shortIdMatches) > 1 THEN "ambiguous short id" ELSE "none"]

\* mutant: the list lookup runs whatever the exact lookup returned
LookupAlways(getOk) == TRUE

\* driver.go:350: the heuristic runs only when the exact lookup returned an error
LookupNeeded(getOk) == ~getOk

\* mutant: a check that passed ends by submitting the instance to the remote
OutcomeSubmits(image, err, calls, images, log) ==
  [image |-> image, err |-> err,
   calls |-> IF err = "nil" THEN Append(calls, [api |-> "Instances.Create", arg |-> image,
                                                ok |-> TRUE])
             ELSE calls,
   images |-> images, log |-> log]

Outcome(image, err, calls, images, log) ==
  [image |-> image, err |-> err, calls |-> calls, images |-> images, log |-> log]

\* mutant: the selected identifier is stored only once the package is validated
PreCreateCheckRunRewriteLast(image, package, cat, faults) ==
  LET pingOk == "Ping" \notin faults
      getOk == "Images.Get" \notin faults /\ ImagesGet(cat, image)
      listOk == "Images.List" \notin faults
      pkgOk == "Packages.Get" \notin faults
      input == ListImagesInput(image)
      images == ImagesList(cat, input)
      res == ResolveImage(images, image)
      c1 == << Call("Ping", EmptyStr, pingOk) >>
      c2 == Append(c1, Call("Images.Get", image, getOk))
      c3 == IF LookupNeeded(getOk) THEN Append(c2, Call("Images.List", input, listOk)) ELSE c2
      image2 == IF LookupNeeded(getOk) THEN res.id ELSE image
      log2 == IF LookupNeeded(getOk) THEN res.log ELSE "none"
      images2 == IF LookupNeeded(getOk) THEN images ELSE <<>>
      c4 == Append(c3, Call("Packages.Get", package, pkgOk))
  IN IF "client" \in faults THEN Outcome(image, "client", <<>>, <<>>, "none")
     ELSE IF ~pingOk THEN Outcome(image, "Ping", c1, <<>>, "none")
     ELSE IF LookupNeeded(getOk) /\ ~listOk THEN Outcome(image, "Images.List", c3, <<>>, "none")
     ELSE IF LookupNeeded(getOk) /\ ~res.ok THEN Outcome(image, "Images.Get", c3, images, res.log)
     ELSE IF ~pkgOk THEN Outcome(image, "Packages.Get", c4, images2, log2)
     ELSE Outcome(image2, NoErr, c4, images2, log2)

\* mutant: the package is looked up also when no image was selected
PreCreateCheckRunPackageAnyway(image, package, cat, faults) ==
  LET pingOk == "Ping" \notin faults
      getOk == "Images.Get" \notin faults /\ ImagesGet(cat, image)
      listOk == "Images.List" \notin faults
      pkgOk == "Packages.Get" \notin faults
      input == ListImagesInput(image)
      images == ImagesList(cat, input)
      res == ResolveImage(images, image)
      c1 == << Call("Ping", EmptyStr, pingOk) >>
      c2 == Append(c1, Call("Images.Get", image, getOk))
      c3 == IF LookupNeeded(getOk) THEN Append(c2, Call("Images.List", input, listOk)) ELSE c2
      image2 == IF LookupNeeded(getOk) THEN res.id ELSE image
      log2 == IF LookupNeeded(getOk) THEN res.log ELSE "none"
      images2 == IF LookupNeeded(getOk) THEN images ELSE <<>>
      c4 == Append(c3, Call("Packages.Get", package, pkgOk))
  IN IF "client" \in faults THEN Outcome(image, "client", <<>>, <<>>, "none")
     ELSE IF ~pingOk THEN Outcome(image, "Ping", c1, <<>>, "none")
     ELSE IF LookupNeeded(getOk) /\ ~listOk THEN Outcome(image, "Images.List", c3, <<>>, "none")
     ELSE IF LookupNeeded(getOk) /\ ~res.ok THEN Outcome(image, "Images.Get", c4, images, res.log)
     ELSE IF ~pkgOk THEN Outcome(image2, "Packages.Get", c4, images2, log2)
     ELSE Outcome(image2, NoErr, c4, images2, log2)

\* driver.go:336-416, the whole handler: the new TritonImage, the returned error,
\* the remote calls made in order, the list response and the log line written
PreCreateCheckRun(image, package, cat, faults) ==
  LET pingOk == "Ping" \notin faults
      getOk == "Images.Get" \notin faults /\ ImagesGet(cat, image)
      listOk == "Images.List" \notin faults
      pkgOk == "Packages.Get" \notin faults
      input == ListImagesInput(image)
      images == ImagesList(cat, input)
      res == ResolveImage(images, image)
      c1 == << Call("Ping", EmptyStr, pingOk) >>
      c2 == Append(c1, Call("Images.Get", image, getOk))
      c3 == IF LookupNeeded(getOk) THEN Append(c2, Call("Images.List", input, listOk)) ELSE c2
      image2 == IF LookupNeeded(getOk) THEN res.id ELSE image
      log2 == IF LookupNeeded(getOk) THEN res.log ELSE "none"
      images2 == IF LookupNeeded(getOk) THEN images ELSE <<>>
      c4 == Append(c3, Call("Packages.Get", package, pkgOk))
  IN IF "client" \in faults THEN Outcome(image, "client", <<>>, <<>>, "none")
     ELSE IF ~pingOk THEN Outcome(image, "Ping", c1, <<>>, "none")
     ELSE IF LookupNeeded(getOk) /\ ~listOk THEN Outcome(image, "Images.List", c3, <<>>, "none")
     ELSE IF LookupNeeded(getOk) /\ ~res.ok THEN Outcome(image, "Images.Get", c3, images, res.log)
     ELSE IF ~pkgOk THEN Outcome(image2, "Packages.Get", c4, images2, log2)
     ELSE Outcome(image2, NoErr, c4, images2, log2)

Snapshot == [image |-> TritonImage, machineId |-> TritonMachineId, ip |-> IPAddress]

\* what an operation leaves behind for inspection: the error and the values it
\* returned, the remote calls it made in order, and what the remote answered
Result(op, err, ret, addr, calls, images, log, record) ==
  [op |-> op, err |-> err, ret |-> ret, addr |-> addr, calls |-> calls,
   images |-> images, log |-> log, record |-> record]

\* the operation is the one made just before, with the same remote calls, the same
\* outcomes of them and the same answers
Repeats(new) ==
  /\ new.op = last.op
  /\ new.calls = last.calls
  /\ new.record = last.record
  /\ new.images = last.images

\* the calls that fail by themselves (transport, authentication).  The handler returns
\* at a client, Ping or Images.List failure, so faults of the calls after those are
\* not drawn with them.
PreCheckFaults ==
  { {"client"}, {"Ping"}, {"Images.List"}, {"Images.Get", "Images.List"} }
  \cup SUBSET {"Images.Get", "Packages.Get"}

PreCreateCheck ==
  /\ pc = "idle"
  /\ \E faults \in PreCheckFaults :
       LET r == PreCreateCheckRun(TritonImage, TritonPackage, catalog, faults)
       IN /\ TritonImage' = r.image
          /\ pre' = Snapshot
          /\ last' = Result("PreCreateCheck", r.err, "none", EmptyStr, r.calls,
                            r.images, r.log, NoRecord)
          /\ again' = Repeats(last')
          /\ validated' = (r.err = NoErr)
          /\ UNCHANGED <<TritonPackage, TritonMachineId, IPAddress, catalog, instances,
                         pc, attempts, accessVars>>

(***************************************************************************)
(* Driver.getMachine, GetIP, GetState                                      *)
(***************************************************************************)
\* what a fetch of the instance record may meet: the client cannot be built, the
\* call fails by itself, or the remote answers; it answers with a record only for an
\* identifier it knows
FetchInputs(machineId, insts) ==
  { [faults |-> f, rec |-> NoRecord] : f \in { {"client"}, {"Instances.Get"} } }
  \cup { [faults |-> {}, rec |-> r] :
           r \in IF machineId \in DOMAIN insts /\ insts[machineId] = "live"
                 THEN InstanceRecords ELSE {NoRecord} }

\* the remote answers GetInstance for the identifiers it knows
InstancesGet(insts, id, faults) ==
  /\ "Instances.Get" \notin faults
  /\ id \in DOMAIN insts
  /\ insts[id] = "live"

\* mutant: an address already cached is not overwritten by the record fetched
getMachineKeepsCached(machineId, ip, insts, faults, rec) ==
  IF "client" \in faults
  THEN [err |-> "client", machine |-> NoRecord, calls |-> <<>>, ip |-> ip]
  ELSE IF ~InstancesGet(insts, machineId, faults)
  THEN [err |-> "Instances.Get", machine |-> NoRecord,
        calls |-> << Call("Instances.Get", machineId, FALSE) >>, ip |-> ip]
  ELSE [err |-> NoErr, machine |-> rec,
        calls |-> << Call("Instances.Get", machineId, TRUE) >>,
        ip |-> IF ip # EmptyStr THEN ip ELSE rec.PrimaryIP]

\* driver.go:221-239: the error, the record fetched, the calls made and the new
\* cached address
getMachine(machineId, ip, insts, faults, rec) ==
  IF "client" \in faults
  THEN [err |-> "client", machine |-> NoRecord, calls |-> <<>>, ip |-> ip]
  ELSE IF ~InstancesGet(insts, machineId, faults)
  THEN [err |-> "Instances.Get", machine |-> NoRecord,
        calls |-> << Call("Instances.Get", machineId, FALSE) >>, ip |-> ip]
  ELSE [err |-> NoErr, machine |-> rec,
        calls |-> << Call("Instances.Get", machineId, TRUE) >>, ip |-> rec.PrimaryIP]

\* mutant: the cached address is not consulted, the record is fetched every time
GetIPRunNoCache(machineId, ip, insts, faults, rec) ==
  LET m == getMachine(machineId, ip, insts, faults, rec)
  IN IF m.err # NoErr
     THEN [addr |-> EmptyStr, err |-> m.err, calls |-> m.calls, ip |-> m.ip,
           machine |-> m.machine]
     ELSE [addr |-> m.machine.PrimaryIP, err |-> NoErr, calls |-> m.calls, ip |-> m.ip,
           machine |-> m.machine]

\* driver.go:425-434: the address and error returned, the fetch made if any
GetIPRun(machineId, ip, insts, faults, rec) ==
  IF ip # EmptyStr
  THEN [addr |-> ip, err |-> NoErr, calls |-> <<>>, ip |-> ip, machine |-> NoRecord]
  ELSE LET m == getMachine(machineId, ip, insts, faults, rec)
       IN IF m.err # NoErr
          THEN [addr |-> EmptyStr, err |-> m.err, calls |-> m.calls, ip |-> m.ip,
                machine |-> m.machine]
          ELSE [addr |-> m.machine.PrimaryIP, err |-> NoErr, calls |-> m.calls, ip |-> m.ip,
                machine |-> m.machine]

GetIP ==
  /\ pc = "idle"
  /\ \E in \in IF IPAddress # EmptyStr THEN { [faults |-> {}, rec |-> NoRecord] }
               ELSE FetchInputs(TritonMachineId, instances) :
       LET r == GetIPRun(TritonMachineId, IPAddress, instances, in.faults, in.rec)
       IN /\ IPAddress' = r.ip
          /\ pre' = Snapshot
          /\ last' = Result("GetIP", r.err, "none", r.addr, r.calls, <<>>, "none", r.machine)
          /\ again' = Repeats(last')
          /\ UNCHANGED <<TritonImage, TritonPackage, TritonMachineId, catalog, instances,
                         pc, attempts, validated, accessVars>>

UnknownStateErr(s) == "unknown Triton instance state: " \o s

\* mutant: the switch has a default that reports a stopped host
MapStateDefaultStopped(s) ==
  IF s \in {"configured", "provisioning"} THEN [state |-> "Starting", err |-> NoErr]
  ELSE IF s \in {"failed", "receiving"} THEN [state |-> "Error", err |-> NoErr]
  ELSE IF s = "running" THEN [state |-> "Running", err |-> NoErr]
  ELSE IF s \in {"shutting_down", "stopping"} THEN [state |-> "Stopping", err |-> NoErr]
  ELSE [state |-> "Stopped", err |-> NoErr]

\* mutant: "stopping" is filed with the stopped states
MapStateStoppingStopped(s) ==
  IF s \in {"configured", "provisioning"} THEN [state |-> "Starting", err |-> NoErr]
  ELSE IF s \in {"failed", "receiving"} THEN [state |-> "Error", err |-> NoErr]
  ELSE IF s = "running" THEN [state |-> "Running", err |-> NoErr]
  ELSE IF s \in {"shutting_down"} THEN [state |-> "Stopping", err |-> NoErr]
  ELSE IF s \in {"down", "stopped", "stopping"} THEN [state |-> "Stopped", err |-> NoErr]
  ELSE [state |-> "Error", err |-> UnknownStateErr(s)]

\* driver.go:497-510
MapState(s) ==
  IF s \in {"configured", "provisioning"} THEN [state |-> "Starting", err |-> NoErr]
  ELSE IF s \in {"failed", "receiving"} THEN [state |-> "Error", err |-> NoErr]
  ELSE IF s = "running" THEN [state |-> "Running", err |-> NoErr]
  ELSE IF s \in {"shutting_down", "stopping"} THEN [state |-> "Stopping", err |-> NoErr]
  ELSE IF s \in {"down", "stopped"} THEN [state |-> "Stopped", err |-> NoErr]
  ELSE [state |-> "Error", err |-> UnknownStateErr(s)]

\* mutant: an address already cached is taken to mean the host runs, the record's
\* state is consulted only when no address is known yet
GetStateRunCachedIp(machineId, ip, insts, faults, rec) ==
  LET m == getMachine(machineId, ip, insts, faults, rec)
  IN IF m.err # NoErr
     THEN [state |-> "Error", err |-> m.err, calls |-> m.calls, ip |-> m.ip,
           machine |-> m.machine]
     ELSE IF ip # EmptyStr
     THEN [state |-> "Running", err |-> NoErr, calls |-> m.calls, ip |-> m.ip,
           machine |-> m.machine]
     ELSE [state |-> MapState(m.machine.State).state, err |-> MapState(m.machine.State).err,
           calls |-> m.calls, ip |-> m.ip, machine |-> m.machine]

\* driver.go:490-511
GetStateRun(machineId, ip, insts, faults, rec) ==
  LET m == getMachine(machineId, ip, insts, faults, rec)
  IN IF m.err # NoErr
     THEN [state |-> "Error", err |-> m.err, calls |-> m.calls, ip |-> m.ip,
           machine |-> m.machine]
     ELSE [state |-> MapState(m.machine.State).state, err |-> MapState(m.machine.State).err,
           calls |-> m.calls, ip |-> m.ip, machine |-> m.machine]

GetState ==
  /\ pc = "idle"
  /\ \E in \in FetchInputs(TritonMachineId, instances) :
       LET r == GetStateRun(TritonMachineId, IPAddress, instances, in.faults, in.rec)
       IN /\ IPAddress' = r.ip
          /\ pre' = Snapshot
          /\ last' = Result("GetState", r.err, r.state, EmptyStr, r.calls, <<>>, "none",
                            r.machine)
          /\ again' = Repeats(last')
          /\ UNCHANGED <<TritonImage, TritonPackage, TritonMachineId, catalog, instances,
                         pc, attempts, validated, accessVars>>

(***************************************************************************)
(* Driver.Create and its address wait                                      *)
(***************************************************************************)
CreateFaults == { {"client"}, {"createSSHKey"}, {"Instances.Create"}, {} }

\* BaseDriver.MachineName
MachineName == "MachineName"

\* mutant: the request is built from the default image, not from the stored reference
CreateInputDefaultImage(image, package) ==
  [Name |-> MachineName, Image |-> <<"d">>, Package |-> package]

\* driver.go:279-283
CreateInput(image, package) == [Name |-> MachineName, Image |-> image, Package |-> package]

\* mutant: Create refuses to run when an instance identifier is already stored
CreateBeginChecked ==
  /\ pc = "idle"
  /\ \E faults \in CreateFaults :
       LET free == { id \in MachineIds : instances[id] = "none" }
           input == CreateInput(TritonImage, TritonPackage)
       IN IF "client" \in faults
          THEN /\ last' = Result("Create", "client", "none", EmptyStr, <<>>, <<>>, "none",
                                 NoRecord)
               /\ UNCHANGED <<TritonMachineId, instances, pc, attempts>>
          ELSE IF "createSSHKey" \in faults
          THEN /\ last' = Result("Create", "createSSHKey", "none", EmptyStr, <<>>, <<>>,
                                 "none", NoRecord)
               /\ UNCHANGED <<TritonMachineId, instances, pc, attempts>>
          ELSE IF TritonMachineId # EmptyStr
          THEN /\ last' = Result("Create", "exists", "none", EmptyStr, <<>>, <<>>, "none",
                                 NoRecord)
               /\ UNCHANGED <<TritonMachineId, instances, pc, attempts>>
          ELSE IF "Instances.Create" \in faults \/ free = {}
          THEN /\ last' = Result("Create", "Instances.Create", "none", EmptyStr,
                                 << Call("Instances.Create", input, FALSE) >>, <<>>, "none",
                                 NoRecord)
               /\ UNCHANGED <<TritonMachineId, instances, pc, attempts>>
          ELSE \E id \in free :
                 /\ instances' = [instances EXCEPT ![id] = "live"]
                 /\ TritonMachineId' = id
                 /\ pc' = "waiting"
                 /\ attempts' = 0
                 /\ last' = Result("Create", "pending", "none", EmptyStr,
                                   << Call("Instances.Create", input, TRUE) >>, <<>>, "none",
                                   NoRecord)
  /\ pre' = Snapshot
  /\ again' = FALSE
  /\ UNCHANGED <<TritonImage, TritonPackage, IPAddress, catalog, validated, accessVars>>

\* driver.go:261-289: up to the assignment of the identifier the remote returned.
\* The remote rejects the request by itself, or when it has no identifier left.
CreateBegin ==
  /\ pc = "idle"
  /\ \E faults \in CreateFaults :
       LET free == { id \in MachineIds : instances[id] = "none" }
           input == CreateInput(TritonImage, TritonPackage)
       IN IF "client" \in faults
          THEN /\ last' = Result("Create", "client", "none", EmptyStr, <<>>, <<>>, "none",
                                 NoRecord)
               /\ UNCHANGED <<TritonMachineId, instances, pc, attempts>>
          ELSE IF "createSSHKey" \in faults
          THEN /\ last' = Result("Create", "createSSHKey", "none", EmptyStr, <<>>, <<>>,
                                 "none", NoRecord)
               /\ UNCHANGED <<TritonMachineId, instances, pc, attempts>>
          ELSE IF "Instances.Create" \in faults \/ free = {}
          THEN /\ last' = Result("Create", "Instances.Create", "none", EmptyStr,
                                 << Call("Instances.Create", input, FALSE) >>, <<>>, "none",
                                 NoRecord)
               /\ UNCHANGED <<TritonMachineId, instances, pc, attempts>>
          ELSE \E id \in free :
                 /\ instances' = [instances EXCEPT ![id] = "live"]
                 /\ TritonMachineId' = id
                 /\ pc' = "waiting"
                 /\ attempts' = 0
                 /\ last' = Result("Create", "pending", "none", EmptyStr,
                                   << Call("Instances.Create", input, TRUE) >>, <<>>, "none",
                                   NoRecord)
  /\ pre' = Snapshot
  /\ again' = FALSE
  /\ UNCHANGED <<TritonImage, TritonPackage, IPAddress, catalog, validated, accessVars>>

\* driver.go:436-447: one poll; the address it leaves cached and whether it is there
instanceIpAvailable(machineId, ip, insts, faults, rec) ==
  LET r == GetIPRun(machineId, ip, insts, faults, rec)
  IN [available |-> r.addr # EmptyStr,
      ip |-> IF r.addr # EmptyStr THEN r.addr ELSE r.ip,
      calls |-> r.calls]

\* mutant: when the attempts are used up the identifier is given up again
CreateWaitRollsBack ==
  /\ pc = "waiting"
  /\ attempts < MaxAttempts
  /\ \E in \in IF IPAddress # EmptyStr THEN { [faults |-> {}, rec |-> NoRecord] }
               ELSE FetchInputs(TritonMachineId, instances) :
       LET r == instanceIpAvailable(TritonMachineId, IPAddress, instances, in.faults, in.rec)
           done == r.available \/ attempts + 1 = MaxAttempts
       IN /\ IPAddress' = r.ip
          /\ attempts' = attempts + 1
          /\ pc' = IF done THEN "idle" ELSE "waiting"
          /\ TritonMachineId' = IF done /\ ~r.available THEN pre.machineId
                                 ELSE TritonMachineId
          /\ last' = [last EXCEPT !.calls = last.calls \o r.calls,
                                  !.err = IF r.available THEN NoErr
                                          ELSE IF done THEN "WaitFor" ELSE "pending"]
  /\ UNCHANGED <<TritonImage, TritonPackage, catalog, instances, pre, again,
                 validated, accessVars>>

\* mutant: a poll whose fetch failed ends the wait with the error of the fetch
CreateWaitPropagates ==
  /\ pc = "waiting"
  /\ attempts < MaxAttempts
  /\ \E in \in IF IPAddress # EmptyStr THEN { [faults |-> {}, rec |-> NoRecord] }
               ELSE FetchInputs(TritonMachineId, instances) :
       LET r == instanceIpAvailable(TritonMachineId, IPAddress, instances, in.faults, in.rec)
           failed == in.faults # {}
           done == r.available \/ failed \/ attempts + 1 = MaxAttempts
       IN /\ IPAddress' = r.ip
          /\ attempts' = attempts + 1
          /\ pc' = IF done THEN "idle" ELSE "waiting"
          /\ last' = [last EXCEPT !.calls = last.calls \o r.calls,
                                  !.err = IF r.available THEN NoErr
                                          ELSE IF "client" \in in.faults THEN "client"
                                          ELSE IF failed THEN "Instances.Get"
                                          ELSE IF done THEN "WaitFor" ELSE "pending"]
  /\ UNCHANGED <<TritonImage, TritonPackage, TritonMachineId, catalog, instances, pre, again,
                 validated, accessVars>>

\* mutant: a round in which the fetch failed is not counted against the attempts
CreateWaitCountsAnswers ==
  /\ pc = "waiting"
  /\ attempts < MaxAttempts
  /\ \E in \in IF IPAddress # EmptyStr THEN { [faults |-> {}, rec |-> NoRecord] }
               ELSE FetchInputs(TritonMachineId, instances) :
       LET r == instanceIpAvailable(TritonMachineId, IPAddress, instances, in.faults, in.rec)
           count == IF in.faults = {} THEN attempts + 1 ELSE attempts
           done == r.available \/ count = MaxAttempts
       IN /\ IPAddress' = r.ip
          /\ attempts' = count
          /\ pc' = IF done THEN "idle" ELSE "waiting"
          /\ last' = [last EXCEPT !.calls = last.calls \o r.calls,
                                  !.err = IF r.available THEN NoErr
                                          ELSE IF done THEN "WaitFor" ELSE "pending"]
  /\ UNCHANGED <<TritonImage, TritonPackage, TritonMachineId, catalog, instances, pre, again,
                 validated, accessVars>>

\* driver.go:291-297: one round of mcnutils.WaitFor(d.instanceIpAvailable); the wait
\* ends at the first poll that finds an address or when the attempts are used up
CreateWait ==
  /\ pc = "waiting"
  /\ attempts < MaxAttempts
  /\ \E in \in IF IPAddress # EmptyStr THEN { [faults |-> {}, rec |-> NoRecord] }
               ELSE FetchInputs(TritonMachineId, instances) :
       LET r == instanceIpAvailable(TritonMachineId, IPAddress, instances, in.faults, in.rec)
           done == r.available \/ attempts + 1 = MaxAttempts
       IN /\ IPAddress' = r.ip
          /\ attempts' = attempts + 1
          /\ pc' = IF done THEN "idle" ELSE "waiting"
          /\ last' = [last EXCEPT !.calls = last.calls \o r.calls,
                                  !.err = IF r.available THEN NoErr
                                          ELSE IF done THEN "WaitFor" ELSE "pending"]
  /\ UNCHANGED <<TritonImage, TritonPackage, TritonMachineId, catalog, instances, pre, again,
                 validated, accessVars>>

(***************************************************************************)
(* Driver.Start, Stop, Restart, Kill, Remove                               *)
(***************************************************************************)
OperateFaults(api) == { {"client"}, {api}, {} }

\* the remote carries out an operation on the instances it knows
InstancesDo(insts, id, faults, api) ==
  /\ api \notin faults
  /\ id \in DOMAIN insts
  /\ insts[id] = "live"

\* mutant: the error of the call is dropped
OperateSwallows(op, api, machineId, insts, faults) ==
  IF "client" \in faults
  THEN Result(op, "client", "none", EmptyStr, <<>>, <<>>, "none", NoRecord)
  ELSE LET ok == InstancesDo(insts, machineId, faults, api)
       IN Result(op, NoErr, "none", EmptyStr,
                 << Call(api, machineId, ok) >>, <<>>, "none", NoRecord)

\* mutant: a call that failed is made a second time
OperateRetries(op, api, machineId, insts, faults) ==
  IF "client" \in faults
  THEN Result(op, "client", "none", EmptyStr, <<>>, <<>>, "none", NoRecord)
  ELSE LET ok == InstancesDo(insts, machineId, faults, api)
       IN Result(op, IF ok THEN NoErr ELSE api, "none", EmptyStr,
                 IF ok THEN << Call(api, machineId, ok) >>
                 ELSE << Call(api, machineId, ok), Call(api, machineId, ok) >>,
                 <<>>, "none", NoRecord)

\* driver.go:518-573: one call on the stored identifier, its error returned as it is
Operate(op, api, machineId, insts, faults) ==
  IF "client" \in faults
  THEN Result(op, "client", "none", EmptyStr, <<>>, <<>>, "none", NoRecord)
  ELSE LET ok == InstancesDo(insts, machineId, faults, api)
       IN Result(op, IF ok THEN NoErr ELSE api, "none", EmptyStr,
                 << Call(api, machineId, ok) >>, <<>>, "none", NoRecord)

\* driver.go:562-573
StopRun(op, machineId, insts, faults) == Operate(op, "Instances.Stop", machineId, insts, faults)

Frame == UNCHANGED <<TritonImage, TritonPackage, TritonMachineId, IPAddress, catalog,
                     pc, attempts, validated, accessVars>>

\* driver.go:548-559
Start ==
  /\ pc = "idle"
  /\ \E faults \in OperateFaults("Instances.Start") :
       last' = Operate("Start", "Instances.Start", TritonMachineId, instances, faults)
  /\ pre' = Snapshot
  /\ again' = Repeats(last')
  /\ UNCHANGED instances
  /\ Frame

\* driver.go:562-573
Stop ==
  /\ pc = "idle"
  /\ \E faults \in OperateFaults("Instances.Stop") :
       last' = StopRun("Stop", TritonMachineId, instances, faults)
  /\ pre' = Snapshot
  /\ again' = Repeats(last')
  /\ UNCHANGED instances
  /\ Frame

\* mutant: Kill stops the instance but does not hand back what Stop returned
KillDropsError ==
  /\ pc = "idle"
  /\ \E faults \in OperateFaults("Instances.Stop") :
       last' = [StopRun("Kill", TritonMachineId, instances, faults) EXCEPT !.err = NoErr]
  /\ pre' = Snapshot
  /\ again' = Repeats(last')
  /\ UNCHANGED instances
  /\ Frame

\* driver.go:514-516
Kill ==
  /\ pc = "idle"
  /\ \E faults \in OperateFaults("Instances.Stop") :
       last' = StopRun("Kill", TritonMachineId, instances, faults)
  /\ pre' = Snapshot
  /\ again' = Repeats(last')
  /\ UNCHANGED instances
  /\ Frame

\* driver.go:534-545
Restart ==
  /\ pc = "idle"
  /\ \E faults \in OperateFaults("Instances.Reboot") :
       last' = Operate("Restart", "Instances.Reboot", TritonMachineId, instances, faults)
  /\ pre' = Snapshot
  /\ again' = Repeats(last')
  /\ UNCHANGED instances
  /\ Frame

\* mutant: a successful Remove forgets the identifier
RemoveClearsId ==
  /\ pc = "idle"
  /\ \E faults \in OperateFaults("Instances.Delete") :
       LET r == Operate("Remove", "Instances.Delete", TritonMachineId, instances, faults)
       IN /\ last' = r
          /\ instances' = IF r.err = NoErr
                          THEN [instances EXCEPT ![TritonMachineId] = "deleted"]
                          ELSE instances
          /\ TritonMachineId' = IF r.err = NoErr THEN EmptyStr ELSE TritonMachineId
  /\ pre' = Snapshot
  /\ again' = Repeats(last')
  /\ UNCHANGED <<TritonImage, TritonPackage, IPAddress, catalog, pc, attempts, validated,
                 accessVars>>

\* driver.go:519-530
Remove ==
  /\ pc = "idle"
  /\ \E faults \in OperateFaults("Instances.Delete") :
       LET r == Operate("Remove", "Instances.Delete", TritonMachineId, instances, faults)
       IN /\ last' = r
          /\ instances' = IF r.err = NoErr
                          THEN [instances EXCEPT ![TritonMachineId] = "deleted"]
                          ELSE instances
  /\ pre' = Snapshot
  /\ again' = Repeats(last')
  /\ Frame

(***************************************************************************)
(* Driver.SetConfigFromFlags                                               *)
(***************************************************************************)
\* the alphabet of base64.StdEncoding
B64Alphabet ==
  << "A", "B", "C", "D", "E", "F", "G", "H", "I", "J", "K", "L", "M", "N", "O", "P",
     "Q", "R", "S", "T", "U", "V", "W", "X", "Y", "Z", "a", "b", "c", "d", "e", "f",
     "g", "h", "i", "j", "k", "l", "m", "n", "o", "p", "q", "r", "s", "t", "u", "v",
     "w", "x", "y", "z", "0", "1", "2", "3", "4", "5", "6", "7", "8", "9", "+", "/" >>

IsB64(c) == \E i \in 1..Len(B64Alphabet) : B64Alphabet[i] = c

B64Value(c) == (CHOOSE i \in 1..Len(B64Alphabet) : B64Alphabet[i] = c) - 1

\* base64.StdEncoding.DecodeString on a whole number of four-character quanta: the
\* bytes decoded, or a failure at a character outside the alphabet or at padding
\* that is not the end of the input
RECURSIVE DecodeQuanta(_)
DecodeQuanta(s) ==
  IF s = <<>> THEN [ok |-> TRUE, bytes |-> <<>>]
  ELSE LET q == SubSeq(s, 1, 4)
           rest == SubSeq(s, 5, Len(s))
           pad == IF q[4] = "=" THEN (IF q[3] = "=" THEN 2 ELSE 1) ELSE 0
           data == SubSeq(q, 1, 4 - pad)
       IN IF (\E i \in 1..Len(data) : ~IsB64(data[i])) \/ (pad > 0 /\ rest # <<>>)
          THEN [ok |-> FALSE, bytes |-> <<>>]
          ELSE LET v == [i \in 1..4 |-> IF i <= Len(data) THEN B64Value(data[i]) ELSE 0]
                   n == v[1] * 262144 + v[2] * 4096 + v[3] * 64 + v[4]
                   bytes == SubSeq(<< n \div 65536, (n \div 256) % 256, n % 256 >>,
                                   1, 3 - pad)
                   more == DecodeQuanta(rest)
               IN [ok |-> more.ok, bytes |-> IF more.ok THEN bytes \o more.bytes ELSE <<>>]

\* driver.go:75
DecodeString(s) ==
  IF Len(s) % 4 # 0 THEN [ok |-> FALSE, bytes |-> <<>>] ELSE DecodeQuanta(s)

\* driver.go:77
DecodeErr == "triton driver failed to base64 decode triton-key-material"

\* mutant: the check of the key path is in force (driver.go:96-98, commented out)
RequiredErrWithKeyPath(d) ==
  IF d.TritonAccount = EmptyStr
  THEN "triton driver requires the --triton-account/SDC_ACCOUNT option"
  ELSE IF d.TritonKeyPath = EmptyStr
  THEN "triton driver requires the --triton-key-path/SDC_KEY_PATH option"
  ELSE IF d.TritonKeyId = EmptyStr
  THEN "triton driver requires the --triton-key-id/SDC_KEY_ID option"
  ELSE IF d.TritonUrl = EmptyStr
  THEN "triton driver requires the --triton-url/SDC_URL option"
  ELSE IF d.TritonImage = EmptyStr
  THEN "triton driver requires the --triton-image option"
  ELSE IF d.TritonPackage = EmptyStr
  THEN "triton driver requires the --triton-package option"
  ELSE NoErr

\* driver.go:93-113: the checks of the fields, in the order of the code
RequiredErr(d) ==
  IF d.TritonAccount = EmptyStr
  THEN "triton driver requires the --triton-account/SDC_ACCOUNT option"
  ELSE IF d.TritonKeyId = EmptyStr
  THEN "triton driver requires the --triton-key-id/SDC_KEY_ID option"
  ELSE IF d.TritonUrl = EmptyStr
  THEN "triton driver requires the --triton-url/SDC_URL option"
  ELSE IF d.TritonImage = EmptyStr
  THEN "triton driver requires the --triton-image option"
  ELSE IF d.TritonPackage = EmptyStr
  THEN "triton driver requires the --triton-package option"
  ELSE NoErr

\* driver.go:66-114: the driver fields after the call and the error returned; when
\* the key material does not decode the call returns with the later fields not yet set
SetConfigFromFlagsRun(d, o) ==
  LET d1 == [d EXCEPT !.TritonAccount = o.account, !.TritonKeyPath = o.keyPath,
                      !.TritonKeyMaterial = o.keyMaterial]
      dec == DecodeString(o.keyMaterial)
      d2 == IF o.keyMaterial # EmptyStr
            THEN [d1 EXCEPT !.TritonKeyMaterialDecoded = dec.bytes] ELSE d1
      d3 == [d2 EXCEPT !.TritonKeyId = o.keyId, !.TritonUrl = o.url,
                       !.TritonImage = o.image, !.TritonPackage = o.package]
  IN IF o.keyMaterial # EmptyStr /\ ~dec.ok
     THEN [d |-> d1, err |-> DecodeErr]
     ELSE [d |-> d3, err |-> RequiredErr(d3)]

SetConfigFromFlags ==
  /\ pc = "idle"
  /\ LET d == [TritonAccount |-> TritonAccount, TritonKeyPath |-> TritonKeyPath,
               TritonKeyMaterial |-> TritonKeyMaterial,
               TritonKeyMaterialDecoded |-> TritonKeyMaterialDecoded,
               TritonKeyId |-> TritonKeyId, TritonUrl |-> TritonUrl,
               TritonImage |-> TritonImage, TritonPackage |-> TritonPackage]
         r == SetConfigFromFlagsRun(d, opts)
     IN /\ TritonAccount' = r.d.TritonAccount
        /\ TritonKeyPath' = r.d.TritonKeyPath
        /\ TritonKeyMaterial' = r.d.TritonKeyMaterial
        /\ TritonKeyMaterialDecoded' = r.d.TritonKeyMaterialDecoded
        /\ TritonKeyId' = r.d.TritonKeyId
        /\ TritonUrl' = r.d.TritonUrl
        /\ TritonImage' = r.d.TritonImage
        /\ TritonPackage' = r.d.TritonPackage
        /\ last' = Result("SetConfigFromFlags", r.err, "none", EmptyStr, <<>>, <<>>, "none",
                          NoRecord)
  /\ pre' = Snapshot
  /\ again' = Repeats(last')
  /\ UNCHANGED <<TritonMachineId, IPAddress, catalog, instances, pc, attempts, validated,
                 opts>>

(***************************************************************************)
(* docker-machine-driver-sdc: Driver.PreCreateCheck with PublishedAt kept   *)
(* as the string of the wire and parsed at the comparison                  *)
(***************************************************************************)
Digits == << "0", "1", "2", "3", "4", "5", "6", "7", "8", "9" >>

IsDigit(c) == \E i \in 1..Len(Digits) : Digits[i] = c

DigitValue(c) == (CHOOSE i \in 1..Len(Digits) : Digits[i] = c) - 1

\* the number written at positions from..to of s
RECURSIVE Number(_, _, _)
Number(s, from, to) ==
  IF to < from THEN 0 ELSE Number(s, from, to - 1) * 10 + DigitValue(s[to])

DaysIn(year, month) ==
  IF month \in {4, 6, 9, 11} THEN 30
  ELSE IF month # 2 THEN 31
  ELSE IF year % 4 = 0 /\ (year % 100 # 0 \/ year % 400 = 0) THEN 29 ELSE 28

\* sdc/driver.go:511-513: time.Parse(time.RFC3339, s) on the UTC form without
\* fraction, "2006-01-02T15:04:05Z"; the time is kept as <<year, ..., second>>
iso8859(s) ==
  LET shaped == /\ Len(s) = 20
                /\ s[5] = "-" /\ s[8] = "-" /\ s[11] = "T"
                /\ s[14] = ":" /\ s[17] = ":" /\ s[20] = "Z"
                /\ \A i \in {1, 2, 3, 4, 6, 7, 9, 10, 12, 13, 15, 16, 18, 19} : IsDigit(s[i])
      t == << Number(s, 1, 4), Number(s, 6, 7), Number(s, 9, 10),
              Number(s, 12, 13), Number(s, 15, 16), Number(s, 18, 19) >>
  IN IF shaped /\ t[2] \in 1..12 /\ t[3] \in 1..DaysIn(t[1], t[2])
               /\ t[4] < 24 /\ t[5] < 60 /\ t[6] < 60
     THEN [ok |-> TRUE, time |-> t]
     ELSE [ok |-> FALSE, time |-> << 0, 0, 0, 0, 0, 0 >>]

\* time.Time.Before on the parsed times
RECURSIVE BeforeTime(_, _)
BeforeTime(t, u) ==
  IF t = <<>> THEN FALSE
  ELSE Head(t) < Head(u) \/ (Head(t) = Head(u) /\ BeforeTime(Tail(t), Tail(u)))

\* sdc/driver.go:564-573: the rest of the name matches against the candidate so far
RECURSIVE MostRecentParsedLoop(_, _, _)
MostRecentParsedLoop(mostRecent, published, rest) ==
  IF rest = <<>> THEN [ok |-> TRUE, image |-> mostRecent]
  ELSE LET newPublished == iso8859(Head(rest).PublishedAt)
       IN IF ~newPublished.ok THEN [ok |-> FALSE, image |-> mostRecent]
          ELSE IF BeforeTime(published, newPublished.time)
          THEN MostRecentParsedLoop(Head(rest), newPublished.time, Tail(rest))
          ELSE MostRecentParsedLoop(mostRecent, published, Tail(rest))

\* mutant: a name match whose timestamp does not parse is passed over
RECURSIVE MostRecentParsedSkips(_)
MostRecentParsedSkips(nameMatches) ==
  IF Len(nameMatches) = 1 THEN [ok |-> TRUE, image |-> nameMatches[1]]
  ELSE LET published == iso8859(nameMatches[1].PublishedAt)
       IN IF ~published.ok THEN MostRecentParsedSkips(Tail(nameMatches))
          ELSE LET good == SelectSeq(Tail(nameMatches),
                                     LAMBDA image : iso8859(image.PublishedAt).ok)
               IN MostRecentParsedLoop(nameMatches[1], published.time, good)

\* sdc/driver.go:559-573
MostRecentParsed(nameMatches) ==
  LET published == iso8859(nameMatches[1].PublishedAt)
  IN IF ~published.ok THEN [ok |-> FALSE, image |-> nameMatches[1]]
     ELSE MostRecentParsedLoop(nameMatches[1], published.time, Tail(nameMatches))

\* sdc/driver.go:516-593, the whole handler: the new image reference, the error, the
\* remote calls in order, the list response and the log line
PreCreateCheckSdcRun(image, package, cat, faults) ==
  LET countOk == "CountMachines" \notin faults
      getOk == "GetImage" \notin faults /\ ImagesGet(cat, image)
      listOk == "ListImages" \notin faults
      pkgOk == "GetPackage" \notin faults
      filter == ListImagesInput(image)
      images == ImagesList(cat, filter)
      name == ImageName(image)
      nameMatches == NameMatches(images, name)
      shortIdMatches == ShortIdMatches(images, name)
      recent == MostRecentParsed(nameMatches)
      c1 == << Call("CountMachines", EmptyStr, countOk) >>
      c2 == Append(c1, Call("GetImage", image, getOk))
      c3 == Append(c2, Call("ListImages", filter, listOk))
      resolved == IF Len(nameMatches) = 1 THEN nameMatches[1].ID
                  ELSE IF Len(nameMatches) > 1 THEN recent.image.ID
                  ELSE shortIdMatches[1].ID
      log == IF Len(nameMatches) = 1 THEN "exact name match"
             ELSE IF Len(nameMatches) > 1 THEN "most recent name match"
             ELSE "exact short id match"
  IN IF "client" \in faults THEN Outcome(image, "client", <<>>, <<>>, "none")
     ELSE IF ~countOk THEN Outcome(image, "CountMachines", c1, <<>>, "none")
     ELSE IF getOk
     THEN LET c4 == Append(c2, Call("GetPackage", package, pkgOk))
          IN Outcome(image, IF pkgOk THEN NoErr ELSE "GetPackage", c4, <<>>, "none")
     ELSE IF ~listOk THEN Outcome(image, "ListImages", c3, <<>>, "none")
     ELSE IF Len(nameMatches) > 1 /\ ~recent.ok
     THEN Outcome(image, "time.Parse", c3, images, "none")
     ELSE IF Len(nameMatches) = 0 /\ Len(shortIdMatches) # 1
     THEN Outcome(image, "GetImage", c3, images,
                  IF Len(shortIdMatches) > 1 THEN "ambiguous short id" ELSE "none")
     ELSE LET c4 == Append(c3, Call("GetPackage", package, pkgOk))
          IN Outcome(resolved, IF pkgOk THEN NoErr ELSE "GetPackage", c4, images, log)

SdcFaults ==
  { {}, {"client"}, {"CountMachines"}, {"GetImage"}, {"ListImages"}, {"GetPackage"} }

PreCreateCheckSdc ==
  /\ pc = "idle"
  /\ \E faults \in SdcFaults :
       LET r == PreCreateCheckSdcRun(TritonImage, TritonPackage, catalog, faults)
       IN /\ TritonImage' = r.image
          /\ pre' = Snapshot
          /\ last' = Result("PreCreateCheckSdc", r.err, "none", EmptyStr, r.calls,
                            r.images, r.log, NoRecord)
          /\ again' = Repeats(last')
          /\ validated' = (r.err = NoErr)
          /\ UNCHANGED <<TritonPackage, TritonMachineId, IPAddress, catalog, instances,
                         pc, attempts, accessVars>>

(***************************************************************************)
(* Specifications                                                          *)
(***************************************************************************)
NoOp == Result("none", NoErr, "none", EmptyStr, <<>>, <<>>, "none", NoRecord)

\* flags that pass SetConfigFromFlags: an account, a key id and the endpoint, the key
\* taken from the SSH agent
GivenOpts == [account |-> <<"a">>, keyPath |-> EmptyStr, keyMaterial |-> EmptyStr,
              keyId |-> <<"f">>, url |-> <<"u">>, image |-> <<"d">>, package |-> <<"k", "4">>]

\* the access parameters as SetConfigFromFlags leaves them for GivenOpts.  The driver
\* does not keep the options; its image and package are drawn by each Init, as
\* configured or as an earlier PreCreateCheck has left them.
Configured ==
  /\ opts = GivenOpts
  /\ TritonAccount = GivenOpts.account
  /\ TritonKeyPath = GivenOpts.keyPath
  /\ TritonKeyMaterial = GivenOpts.keyMaterial
  /\ TritonKeyMaterialDecoded = EmptyStr
  /\ TritonKeyId = GivenOpts.keyId
  /\ TritonUrl = GivenOpts.url

\* NewDriver + SetConfigFromFlags: image and package are set and non-empty,
\* no instance identifier, no cached address (driver.go:86-87, 106-111, 241-255)
InitResolve ==
  /\ TritonImage \in ImageRefs
  /\ TritonPackage \in PackageRefs
  /\ TritonMachineId = EmptyStr
  /\ IPAddress = EmptyStr
  /\ catalog \in Catalogs
  /\ instances = [id \in MachineIds |-> "none"]
  /\ pc = "idle"
  /\ attempts = 0
  /\ pre = [image |-> TritonImage, machineId |-> EmptyStr, ip |-> EmptyStr]
  /\ last = NoOp
  /\ again = FALSE
  /\ validated = FALSE
  /\ Configured

NextResolve == PreCreateCheck

\* image resolution over every catalog of up to MaxImages entries
SpecResolve == InitResolve /\ [][NextResolve]_vars

\* the catalogs of the lifecycle specification: empty, or one image
LifecycleCatalogs ==
  { <<>>, << [ID |-> <<"e">>, Name |-> <<"d">>, Version |-> <<"1">>, PublishedAt |-> 1] >> }

LifecycleRefs == { <<"d">>, <<"e">> }

\* a new driver, or one whose identifier was loaded from the persisted configuration
Init ==
  /\ TritonImage \in LifecycleRefs
  /\ TritonPackage \in PackageRefs
  /\ catalog \in LifecycleCatalogs
  /\ \/ /\ TritonMachineId = EmptyStr
        /\ instances = [id \in MachineIds |-> "none"]
     \/ /\ TritonMachineId = <<"m", "1">>
        /\ instances = [id \in MachineIds |-> IF id = <<"m", "1">> THEN "live" ELSE "none"]
  /\ IPAddress = EmptyStr
  /\ pc = "idle"
  /\ attempts = 0
  /\ pre = [image |-> TritonImage, machineId |-> TritonMachineId, ip |-> IPAddress]
  /\ last = NoOp
  /\ again = FALSE
  /\ validated = FALSE
  /\ Configured

Next ==
  \/ PreCreateCheck
  \/ CreateBegin
  \/ CreateWait
  \/ GetIP
  \/ GetState
  \/ Start
  \/ Stop
  \/ Kill
  \/ Restart
  \/ Remove

Spec == Init /\ [][Next]_vars

\* timestamps as the remote writes them: two that parse, one cut short and one with
\* a month that does not exist
Midnight == << "T", "0", "0", ":", "0", "0", ":", "0", "0", "Z" >>

WireTimes ==
  { << "2", "0", "1", "5", "-", "0", "5", "-", "2", "7" >> \o Midnight,
    << "2", "0", "1", "6", "-", "0", "2", "-", "2", "9" >> \o Midnight,
    << "2", "0", "1", "5", "-", "0", "5", "-", "2", "7" >>,
    << "2", "0", "1", "5", "-", "1", "3", "-", "2", "7" >> \o Midnight }

SdcImages ==
  [ID : ImageIds, Name : ImageNames, Version : {<<"1">>},
   PublishedAt : WireTimes]

SdcCatalogs == { c \in SeqsUpTo(SdcImages, MaxImages) : DistinctIds(c) }

\* a configured sdc driver before its PreCreateCheck
InitSdc ==
  /\ TritonImage \in LifecycleRefs
  /\ TritonPackage \in PackageRefs
  /\ TritonMachineId = EmptyStr
  /\ IPAddress = EmptyStr
  /\ catalog \in SdcCatalogs
  /\ instances = [id \in MachineIds |-> "none"]
  /\ pc = "idle"
  /\ attempts = 0
  /\ pre = [image |-> TritonImage, machineId |-> EmptyStr, ip |-> EmptyStr]
  /\ last = NoOp
  /\ again = FALSE
  /\ validated = FALSE
  /\ Configured

NextSdc == PreCreateCheckSdc

SpecSdc == InitSdc /\ [][NextSdc]_vars

\* the values a flag may be given: left empty, or set
KeyMaterials ==
  { EmptyStr, <<"a", "2", "V", "5">>, <<"Q", "Q", "=", "=">>, <<"Q", "Q">>,
    <<"a", "2", "V", "*">> }

DriverOptions ==
  [account : {EmptyStr, <<"a">>}, keyPath : {EmptyStr, <<"p">>}, keyMaterial : KeyMaterials,
   keyId : {EmptyStr, <<"f">>}, url : {EmptyStr, <<"u">>}, image : {EmptyStr, <<"d">>},
   package : {EmptyStr, <<"k", "4">>}]

\* driver.go:38
defaultTritonUrl == <<"u">>

\* driver.go:241-255: a new driver, about to be handed its flags
InitConfig ==
  /\ opts \in DriverOptions
  /\ TritonAccount = EmptyStr
  /\ TritonKeyPath = EmptyStr
  /\ TritonKeyMaterial = EmptyStr
  /\ TritonKeyMaterialDecoded = EmptyStr
  /\ TritonKeyId = EmptyStr
  /\ TritonUrl = defaultTritonUrl
  /\ TritonImage = EmptyStr
  /\ TritonPackage = EmptyStr
  /\ TritonMachineId = EmptyStr
  /\ IPAddress = EmptyStr
  /\ catalog = <<>>
  /\ instances = [id \in MachineIds |-> "none"]
  /\ pc = "idle"
  /\ attempts = 0
  /\ pre = [image |-> EmptyStr, machineId |-> EmptyStr, ip |-> EmptyStr]
  /\ last = NoOp
  /\ again = FALSE
  /\ validated = FALSE

NextConfig == SetConfigFromFlags

SpecConfig == InitConfig /\ [][NextConfig]_vars

\* Create blocks its caller in mcnutils.WaitFor until the wait returns (driver.go:293):
\* a wait that can make a round makes it
SpecWait == Spec /\ WF_vars(CreateWait)

(***************************************************************************)
(* What the claims talk about                                              *)
(***************************************************************************)
Checked == last.op = "PreCreateCheck"

Called(api) == \E i \in 1..Len(last.calls) : last.calls[i].api = api

Succeeded(api) == \E i \in 1..Len(last.calls) : last.calls[i].api = api /\ last.calls[i].ok

Failed(api) == \E i \in 1..Len(last.calls) : last.calls[i].api = api /\ ~last.calls[i].ok

\* s is what precedes the first sep of full (all of full when it holds no sep)
IsLeadingSegment(s, sep, full) ==
  /\ \A i \in 1..Len(s) : s[i] # sep
  /\ \/ s = full
     \/ /\ Len(s) < Len(full)
        /\ SubSeq(full, 1, Len(s)) = s
        /\ full[Len(s) + 1] = sep

\* the name and the version the supplied reference asks for
QueriedName == CHOOSE n \in { SubSeq(pre.image, 1, k) : k \in 0..Len(pre.image) } :
                 IsLeadingSegment(n, "@", pre.image)

QueriedVersion ==
  IF Len(QueriedName) = Len(pre.image) THEN EmptyStr
  ELSE SubSeq(pre.image, Len(QueriedName) + 2, Len(pre.image))

\* the exact lookup failed and the catalog answered the list query: last.images is
\* the catalog snapshot the heuristic works on
Heuristic == Checked /\ Failed("Images.Get") /\ Succeeded("Images.List")

NameHits == { i \in 1..Len(last.images) : last.images[i].Name = QueriedName }

ShortIdHits ==
  { i \in 1..Len(last.images) : IsLeadingSegment(QueriedName, "-", last.images[i].ID) }

\* C1: when the exact-identifier lookup succeeds, ListImages is not called and the
\* stored image reference stays as supplied
C1_ExactLookupShortCircuits ==
  (Checked /\ Succeeded("Images.Get")) =>
    (~Called("Images.List") /\ TritonImage = pre.image)

\* the looked-up string is also the name of a catalog entry
C1_Witness ==
  /\ Checked /\ Succeeded("Images.Get")
  /\ \E i \in 1..Len(catalog) : catalog[i].Name = pre.image

\* C2: exact lookup failed and exactly one listed entry has the queried name: the
\* stored image reference becomes that entry's exact identifier
C2_SingleNameMatch ==
  (Heuristic /\ Cardinality(NameHits) = 1) =>
    \A i \in NameHits : TritonImage = last.images[i].ID

\* one name match, and another entry that matches by short id only
C2_Witness ==
  /\ Heuristic /\ Cardinality(NameHits) = 1
  /\ ShortIdHits \ NameHits # {}
  /\ TritonImage # pre.image

\* C3: exact lookup failed and two or more listed entries have the queried name: the
\* selected entry is a name match and no name match is published strictly later
C3_LatestNameMatch ==
  (Heuristic /\ Cardinality(NameHits) >= 2) =>
    \E i \in NameHits :
      /\ TritonImage = last.images[i].ID
      /\ \A j \in NameHits : last.images[j].PublishedAt <= last.images[i].PublishedAt

\* the latest name match is not the first one of the response
C3_Witness ==
  /\ Heuristic /\ Cardinality(NameHits) >= 2
  /\ \E i \in NameHits : \E j \in NameHits :
       i < j /\ last.images[i].PublishedAt < last.images[j].PublishedAt
       /\ TritonImage = last.images[j].ID

\* C4: exact lookup failed, no listed entry has the queried name and exactly one has
\* it as short id: the stored image reference becomes that entry's exact identifier
C4_SingleShortIdMatch ==
  (Heuristic /\ NameHits = {} /\ Cardinality(ShortIdHits) = 1) =>
    \A i \in ShortIdHits : TritonImage = last.images[i].ID

\* the short id is a proper prefix of the selected identifier
C4_Witness ==
  /\ Heuristic /\ NameHits = {} /\ Cardinality(ShortIdHits) = 1
  /\ \E i \in ShortIdHits : TritonImage = last.images[i].ID /\ Len(TritonImage) > Len(pre.image)

\* the error PreCreateCheck returns when nothing matches: the exact lookup's error
NotFoundErr == "Images.Get"

\* C5: no name match and two or more short-id matches: the check fails with an error
\* that tells the ambiguity apart from not-found, and the stored image reference is
\* not rewritten
C5_AmbiguityError ==
  (Heuristic /\ NameHits = {} /\ Cardinality(ShortIdHits) >= 2) =>
    /\ last.err \notin {NoErr, NotFoundErr}
    /\ TritonImage = pre.image

\* C6: exact lookup failed and no listed entry matches by name or by short id: the
\* check fails with the lookup's not-found error, the stored image reference is
\* unchanged and the package is not validated
C6_NotFound ==
  (Heuristic /\ NameHits = {} /\ ShortIdHits = {}) =>
    /\ last.err = NotFoundErr
    /\ TritonImage = pre.image
    /\ ~Called("Packages.Get")

\* nothing matches although the catalog snapshot is not empty
C6_Witness ==
  /\ Heuristic /\ NameHits = {} /\ ShortIdHits = {}
  /\ last.images # <<>>

\* the heuristic chose an identifier
Resolved == Heuristic /\ last.err \in {NoErr, "Packages.Get"}

ListFilter == { last.calls[i].arg : i \in { k \in 1..Len(last.calls) : last.calls[k].api = "Images.List" } }

\* C7: for name@version the chosen identifier belongs to an entry of that name and
\* that version; with no version the list query carries the state filter alone
C7_VersionFilter ==
  /\ (Resolved /\ QueriedVersion # EmptyStr) =>
       \E i \in 1..Len(catalog) :
         /\ catalog[i].ID = TritonImage
         /\ catalog[i].Name = QueriedName
         /\ catalog[i].Version = QueriedVersion
  /\ (Checked /\ Called("Images.List") /\ QueriedVersion = EmptyStr) =>
       ListFilter = { [State |-> "all", Name |-> EmptyStr, Version |-> EmptyStr] }

\* the catalog holds the queried name at two versions, the later published one is not
\* the version asked for
C7_Witness ==
  /\ Resolved /\ QueriedVersion # EmptyStr
  /\ \E i \in 1..Len(catalog) : \E j \in 1..Len(catalog) :
       /\ catalog[i].Name = QueriedName /\ catalog[j].Name = QueriedName
       /\ catalog[i].Version = QueriedVersion /\ catalog[j].Version # QueriedVersion
       /\ catalog[i].PublishedAt < catalog[j].PublishedAt
       /\ TritonImage = catalog[i].ID

\* GetState fetched the instance record
Fetched == last.op = "GetState" /\ Succeeded("Instances.Get")

\* the table of the abstract states
StateTable ==
  [s \in KnownStates |->
     CASE s \in {"configured", "provisioning"} -> "Starting"
       [] s \in {"failed", "receiving"} -> "Error"
       [] s = "running" -> "Running"
       [] s \in {"shutting_down", "stopping"} -> "Stopping"
       [] s \in {"down", "stopped"} -> "Stopped"]

\* C8: for each of the nine known state strings GetState returns the state the
\* table lists, with no error
C8_StateTable ==
  (Fetched /\ last.record.State \in KnownStates) =>
    (last.ret = StateTable[last.record.State] /\ last.err = NoErr)

C8_Witness ==
  Fetched /\ last.record.State = "stopping" /\ last.ret = "Stopping" /\ last.err = NoErr

\* C9: a state string outside the vocabulary gives Error with the unknown-state
\* error naming the string; "failed" and "receiving" give Error with no error
C9_UnknownState ==
  /\ (Fetched /\ last.record.State \notin KnownStates) =>
       /\ last.ret = "Error"
       /\ last.err # NoErr
       /\ last.err = "unknown Triton instance state: " \o last.record.State
  /\ (Fetched /\ last.record.State \in {"failed", "receiving"}) =>
       (last.ret = "Error" /\ last.err = NoErr)

C9_Witness ==
  Fetched /\ last.record.State = "bogus-state" /\ last.ret = "Error" /\ last.err # NoErr

\* C10: a GetState that follows a GetState at once, the remote answering both alike,
\* returns the same abstract state and the same error
C10_GetStateIdempotent ==
  [][(last'.op = "GetState" /\ again') => (last'.ret = last.ret /\ last'.err = last.err)]_vars

\* the second of two GetState calls; the first one changed the cached address
C10_Witness ==
  /\ Fetched /\ again
  /\ pre.ip # EmptyStr
  /\ last.record.State = "stopped" /\ last.ret = "Stopped"

\* the CreateInstance requests of the last operation
CreateRequests ==
  { i \in 1..Len(last.calls) : last.calls[i].api = "Instances.Create" }

CatalogIds == { catalog[i].ID : i \in 1..Len(catalog) }

\* C11 as stated: every CreateInstance request Create submits carries the exact
\* identifier of a catalog entry in its image field
C11_CreateImageIsExactId ==
  last.op = "Create" =>
    \A i \in CreateRequests : last.calls[i].arg.Image \in CatalogIds

\* C11, amended: once the latest PreCreateCheck has returned nil, every CreateInstance
\* request Create submits carries the exact identifier of a catalog entry in its
\* image field; without that check the request carries the reference as configured
C11_CheckedCreateImageIsExactId ==
  (last.op = "Create" /\ validated) =>
    \A i \in CreateRequests : last.calls[i].arg.Image \in CatalogIds

\* a Create after a PreCreateCheck that returned nil: the request carries e, the
\* identifier of the catalog entry named d
C11_Witness ==
  /\ last.op = "Create" /\ validated
  /\ CreateRequests # {}
  /\ \A i \in CreateRequests : last.calls[i].arg.Image = <<"e">>
  /\ <<"e">> \in CatalogIds

\* C12: the stored instance identifier changes only in a Create whose CreateInstance
\* request succeeded, and then to the identifier the remote has just handed out;
\* PreCreateCheck, GetIP, GetState, Start, Stop, Restart, Kill and Remove leave it alone
C12_OnlyCreateWritesMachineId ==
  [][TritonMachineId' # TritonMachineId =>
       /\ last'.op = "Create"
       /\ \E i \in 1..Len(last'.calls) :
            last'.calls[i].api = "Instances.Create" /\ last'.calls[i].ok
       /\ TritonMachineId' \in MachineIds
       /\ instances[TritonMachineId'] = "none"
       /\ instances'[TritonMachineId'] = "live"]_vars

\* a Create has replaced the identifier the driver was loaded with
C12_Witness ==
  /\ last.op = "Create" /\ Succeeded("Instances.Create")
  /\ pre.machineId = <<"m", "1">>
  /\ TritonMachineId = <<"m", "2">>

ReadOnlyCalls == {"Ping", "Images.Get", "Images.List", "Packages.Get"}

\* C13: PreCreateCheck makes only the read-only calls Ping, GetImage, ListImages and
\* GetPackage and changes no instance; when it fails no CreateInstance, Start, Stop,
\* Reboot or Delete call has been made
C13_PreCreateCheckReadOnly ==
  [][last'.op = "PreCreateCheck" =>
       /\ \A i \in 1..Len(last'.calls) : last'.calls[i].api \in ReadOnlyCalls
       /\ instances' = instances
       /\ TritonMachineId' = TritonMachineId]_vars

\* a check that failed after the list lookup, the instance of the driver still live
C13_Witness ==
  /\ Checked /\ last.err # NoErr
  /\ Called("Images.List")
  /\ TritonMachineId = <<"m", "1">> /\ instances[<<"m", "1">>] = "live"

ApiOf ==
  [Start |-> "Instances.Start", Stop |-> "Instances.Stop", Restart |-> "Instances.Reboot",
   Remove |-> "Instances.Delete"]

\* C15: Start, Stop, Restart and Remove make at most one remote call, their own, on the
\* stored identifier; when it fails its error is returned as it is and nothing follows
C15_OneCallErrorReturned ==
  last.op \in DOMAIN ApiOf =>
    /\ Len(last.calls) <= 1
    /\ \A i \in 1..Len(last.calls) :
         /\ last.calls[i].api = ApiOf[last.op]
         /\ last.calls[i].arg = pre.machineId
         /\ last.calls[i].ok => last.err = NoErr
         /\ ~last.calls[i].ok => last.err = ApiOf[last.op]
    /\ last.calls = <<>> => last.err = "client"

\* a Remove the remote refused
C15_Witness ==
  /\ last.op = "Remove"
  /\ last.calls = << Call("Instances.Delete", pre.machineId, FALSE) >>
  /\ last.err = "Instances.Delete"

InstanceCalls ==
  {"Instances.Get", "Instances.Start", "Instances.Stop", "Instances.Reboot", "Instances.Delete"}

\* the calls of the last operation made on an identifier that was deleted before
CallsOnDeleted ==
  { i \in 1..Len(last.calls) :
      /\ last.calls[i].api \in InstanceCalls
      /\ last.calls[i].arg \in MachineIds
      /\ instances[last.calls[i].arg] = "deleted"
      /\ ~(last.calls[i].api = "Instances.Delete" /\ last.calls[i].ok) }

\* C16 as stated: once Remove has succeeded no operation makes a remote call on the
\* deleted identifier
C16_NoCallOnDeletedId == CallsOnDeleted = {}

\* C16, amended: Remove leaves the stored identifier as it is, so later operations still
\* make their call on the deleted identifier; the remote refuses every such call and the
\* operation returns that error
C16_CallsOnDeletedIdFail ==
  /\ last.op = "Remove" => TritonMachineId = pre.machineId
  /\ \A i \in CallsOnDeleted :
       /\ ~last.calls[i].ok
       /\ last.calls[i].arg = TritonMachineId
       /\ last.err = last.calls[i].api

\* a Start on the identifier a Remove has deleted
C16_Witness ==
  /\ last.op = "Start"
  /\ CallsOnDeleted = {1}
  /\ last.err = "Instances.Start"

\* C17: GetIP with a cached address returns it and makes no remote call; with none it
\* fetches the record once, caches the primary address of the record and returns it;
\* when the fetch fails it returns the empty address with the error of the fetch and
\* the cache stays as it was
C17_GetIPCache ==
  last.op = "GetIP" =>
    /\ pre.ip # EmptyStr =>
         /\ last.calls = <<>>
         /\ last.addr = pre.ip /\ last.err = NoErr
         /\ IPAddress = pre.ip
    /\ (pre.ip = EmptyStr /\ Succeeded("Instances.Get")) =>
         /\ last.calls = << Call("Instances.Get", pre.machineId, TRUE) >>
         /\ IPAddress = last.record.PrimaryIP
         /\ last.addr = last.record.PrimaryIP /\ last.err = NoErr
    /\ (pre.ip = EmptyStr /\ ~Succeeded("Instances.Get")) =>
         /\ last.calls \in { <<>>, << Call("Instances.Get", pre.machineId, FALSE) >> }
         /\ last.addr = EmptyStr
         /\ last.err = IF last.calls = <<>> THEN "client" ELSE "Instances.Get"
         /\ IPAddress = pre.ip

\* a GetIP answered from the cache that an earlier fetch filled
C17_Witness ==
  /\ last.op = "GetIP"
  /\ pre.ip = <<"1">>
  /\ last.calls = <<>> /\ last.addr = <<"1">>

\* the polls of the address wait that reached the remote
Polls == { i \in 1..Len(last.calls) : last.calls[i].api = "Instances.Get" }

\* the wait of Create stays within its attempts and ends as soon as a poll finds an
\* address, with the timeout error only when the attempts are used up
WaitWithinBudget ==
  /\ attempts <= MaxAttempts
  /\ pc = "waiting" =>
       /\ last.op = "Create" /\ last.err = "pending"
       /\ attempts < MaxAttempts
       /\ attempts > 0 => IPAddress = EmptyStr
  /\ last.op = "Create" =>
       /\ Cardinality(Polls) <= attempts
       /\ (pc = "idle" /\ last.err = NoErr) => (attempts >= 1 /\ IPAddress # EmptyStr)
       /\ last.err = "WaitFor" =>
            (pc = "idle" /\ attempts = MaxAttempts /\ IPAddress = EmptyStr)
       /\ (pc = "idle" /\ Succeeded("Instances.Create")) => last.err \in {NoErr, "WaitFor"}

\* C18: the address wait of Create terminates: it polls at most MaxAttempts times, ends
\* with success at the first poll that finds an address and with the timeout error
\* when the attempts are used up; a started wait always comes to its end
C18_WaitTerminates == []WaitWithinBudget /\ ((pc = "waiting") ~> (pc = "idle"))

\* a wait that used up its attempts, every poll answered without an address or failed
C18_Witness ==
  /\ last.op = "Create" /\ last.err = "WaitFor"
  /\ attempts = MaxAttempts
  /\ Cardinality(Polls) = MaxAttempts

\* C19: Create submits one CreateInstance request, none only when the client or the
\* SSH key could not be set up, carrying the machine name and the stored image and
\* package references; when the remote accepts it the stored identifier is the one the
\* remote handed out; when the remote rejects it Create returns that error, the stored
\* identifier is as before and no address poll is made
C19_CreateRequest ==
  last.op = "Create" =>
    /\ CreateRequests \subseteq {1}
    /\ CreateRequests = {} <=> last.err \in {"client", "createSSHKey"}
    /\ \A i \in CreateRequests :
         /\ last.calls[i].arg =
              [Name |-> MachineName, Image |-> pre.image, Package |-> TritonPackage]
         /\ last.calls[i].ok =>
              /\ TritonMachineId \in MachineIds \ {pre.machineId}
              /\ instances[TritonMachineId] = "live"
         /\ ~last.calls[i].ok =>
              /\ last.err = "Instances.Create"
              /\ TritonMachineId = pre.machineId
              /\ Polls = {}
              /\ pc = "idle"

\* a Create the remote rejected, the driver keeping the identifier it had
C19_Witness ==
  /\ last.op = "Create" /\ Failed("Instances.Create")
  /\ last.err = "Instances.Create"
  /\ pre.machineId = <<"m", "1">> /\ TritonMachineId = <<"m", "1">>

Configuring == last.op = "SetConfigFromFlags"

\* the required flags in the order of the checks, each with the error that names it
RequiredFlags ==
  << [flag |-> "account", err |-> "triton driver requires the --triton-account/SDC_ACCOUNT option"],
     [flag |-> "keyId", err |-> "triton driver requires the --triton-key-id/SDC_KEY_ID option"],
     [flag |-> "url", err |-> "triton driver requires the --triton-url/SDC_URL option"],
     [flag |-> "image", err |-> "triton driver requires the --triton-image option"],
     [flag |-> "package", err |-> "triton driver requires the --triton-package option"] >>

Missing == { i \in 1..Len(RequiredFlags) : opts[RequiredFlags[i].flag] = EmptyStr }

FirstMissing == CHOOSE i \in Missing : \A j \in Missing : i <= j

\* key material that is not base64: too short, or with a character outside the alphabet
BadKeyMaterials == { <<"Q", "Q">>, <<"a", "2", "V", "*">> }

\* C20 as stated: SetConfigFromFlags fails exactly when a required flag is empty, with
\* the error that names the first one missing, and makes no remote call
C20_FailsIffRequiredMissing ==
  Configuring =>
    /\ last.calls = <<>>
    /\ last.err # NoErr <=> Missing # {}
    /\ Missing # {} => last.err = RequiredFlags[FirstMissing].err

\* C20, amended: SetConfigFromFlags makes no remote call and fails exactly when the key
\* material is given and is not base64, with the decode error whatever else is missing,
\* or when one of account, key id, url, image and package is empty, with the error that
\* names the first one missing in that order; the key path is not required
C20_FailsIffBadKeyOrRequiredMissing ==
  Configuring =>
    /\ last.calls = <<>>
    /\ last.err # NoErr <=> (opts.keyMaterial \in BadKeyMaterials \/ Missing # {})
    /\ opts.keyMaterial \in BadKeyMaterials => last.err = DecodeErr
    /\ (opts.keyMaterial \notin BadKeyMaterials /\ Missing # {}) =>
         last.err = RequiredFlags[FirstMissing].err

\* key id and image both left empty, no key path given: the error names the key id
C20_Witness ==
  /\ Configuring
  /\ Missing = {2, 4}
  /\ opts.keyPath = EmptyStr /\ opts.keyMaterial = <<"Q", "Q", "=", "=">>
  /\ TritonKeyMaterialDecoded = <<65>>
  /\ last.err = "triton driver requires the --triton-key-id/SDC_KEY_ID option"

\* the calls of the last operation that failed, the exact image lookup left aside: its
\* error is what sends PreCreateCheck to the list lookup
FailedCalls ==
  { i \in 1..Len(last.calls) : ~last.calls[i].ok /\ last.calls[i].api # "Images.Get" }

\* C21 as stated: an operation in which a remote call failed returns an error, a failed
\* fetch of the record during the address wait of Create included
C21_NoFailureSwallowed ==
  (pc = "idle" /\ FailedCalls # {}) => last.err # NoErr

\* C21, amended: outside the address wait a failed call is the error the operation
\* returns; a failed fetch during the address wait of Create is never returned: Create
\* polls on, returns nil when a later poll finds an address and the WaitFor error when
\* the attempts are used up; a failed exact lookup in PreCreateCheck is made good by
\* the list lookup or is the error returned
C21_FailuresReturnedButPolls ==
  /\ (last.op # "Create" /\ FailedCalls # {}) =>
       \E i \in FailedCalls : last.err = last.calls[i].api
  /\ (Checked /\ Failed("Images.Get") /\ last.err = NoErr) => Succeeded("Images.List")
  /\ last.op = "Create" =>
       /\ Failed("Instances.Create") => last.err = "Instances.Create"
       /\ last.err # "Instances.Get"
       /\ (pc = "idle" /\ Failed("Instances.Get")) => last.err \in {NoErr, "WaitFor"}

\* a Create that returned nil although the fetch of its first poll failed
C21_Witness ==
  /\ last.op = "Create" /\ pc = "idle" /\ last.err = NoErr
  /\ Len(last.calls) = 3
  /\ ~last.calls[2].ok /\ last.calls[2].api = "Instances.Get"
  /\ last.calls[3].ok

\* the wire timestamps that are not in the date-time format
BadWireTimes ==
  { << "2", "0", "1", "5", "-", "0", "5", "-", "2", "7" >>,
    << "2", "0", "1", "5", "-", "1", "3", "-", "2", "7", "T", "0", "0", ":", "0", "0", ":",
       "0", "0", "Z" >> }

\* the list lookup of the sdc driver returned two or more name matches, one of them
\* with a timestamp that does not parse
UnparsableCandidate ==
  /\ last.op = "PreCreateCheckSdc"
  /\ Failed("GetImage") /\ Succeeded("ListImages")
  /\ Cardinality(NameHits) >= 2
  /\ \E i \in NameHits : last.images[i].PublishedAt \in BadWireTimes

\* C22: with two or more name matches of which one has a timestamp that does not parse,
\* the check returns the parse error, the image reference stays as it was and the
\* package is not looked up
C22_ParseFailureAborts ==
  UnparsableCandidate =>
    /\ last.err = "time.Parse"
    /\ TritonImage = pre.image
    /\ ~Called("GetPackage")

\* two name matches, the first with a good timestamp and the second cut short
C22_Witness ==
  /\ UnparsableCandidate
  /\ Len(last.images) = 2 /\ NameHits = {1, 2}
  /\ last.images[1].PublishedAt \notin BadWireTimes
  /\ last.images[2].PublishedAt = << "2", "0", "1", "5", "-", "0", "5", "-", "2", "7" >>
  /\ last.err = "time.Parse"

\* C23: with at least one name match the heuristic selects a name match, however many
\* entries match by short id: it never fails as ambiguous or not found and never
\* selects an entry that matches by short id only
C23_NameMatchesFirst ==
  /\ (Heuristic /\ NameHits # {}) =>
       /\ last.err \in {NoErr, "Packages.Get"}
       /\ last.log \in {"exact name match", "most recent name match"}
       /\ \E i \in NameHits : TritonImage = last.images[i].ID
  /\ (Heuristic /\ last.log = "exact short id match") => NameHits = {}

\* one name match while two entries match by short id, one of them by short id only
C23_Witness ==
  /\ Heuristic /\ Cardinality(NameHits) = 1
  /\ Cardinality(ShortIdHits) = 2 /\ ShortIdHits \ NameHits # {}
  /\ \E i \in NameHits : TritonImage = last.images[i].ID
  /\ last.err = NoErr

\* the name matches that no name match is published later than
LatestNameHits ==
  { i \in NameHits : \A j \in NameHits :
      last.images[j].PublishedAt <= last.images[i].PublishedAt }

\* C24: of several name matches that share the latest timestamp the one that comes
\* first in the list response is selected
C24_FirstOfEqualTimestamps ==
  (Heuristic /\ Cardinality(NameHits) >= 2) =>
    \E i \in LatestNameHits :
      /\ \A j \in LatestNameHits : i <= j
      /\ TritonImage = last.images[i].ID

\* two name matches published at the same time: the first of the response is kept
C24_Witness ==
  /\ Heuristic /\ NameHits = {1, 2}
  /\ last.images[1].PublishedAt = last.images[2].PublishedAt
  /\ TritonImage = last.images[1].ID

\* the remote calls of the last operation, by name and in order
CallOrder == [i \in 1..Len(last.calls) |-> last.calls[i].api]

\* C25: PreCreateCheck calls Ping, GetImage, ListImages only when GetImage failed, and
\* GetPackage, in this order, and stops at the first failure that counts: nothing is
\* called when the client cannot be built, no lookup follows a failed Ping, no
\* GetPackage follows a failed ListImages or an image left unresolved; it returns nil
\* only with Ping successful, the image found or resolved and GetPackage successful
C25_CallOrder ==
  Checked =>
    /\ CallOrder \in { <<>>, <<"Ping">>, <<"Ping", "Images.Get", "Packages.Get">>,
                        <<"Ping", "Images.Get", "Images.List">>,
                        <<"Ping", "Images.Get", "Images.List", "Packages.Get">> }
    /\ CallOrder = <<>> <=> last.err = "client"
    /\ CallOrder = <<"Ping">> <=> Failed("Ping")
    /\ Failed("Ping") => last.err = "Ping"
    /\ Called("Images.List") <=> Failed("Images.Get")
    /\ Failed("Images.List") => (last.err = "Images.List" /\ ~Called("Packages.Get"))
    /\ last.err = "Images.Get" => (Succeeded("Images.List") /\ ~Called("Packages.Get"))
    /\ Called("Packages.Get") <=> last.err \in {NoErr, "Packages.Get"}
    /\ last.err = NoErr <=>
         /\ Succeeded("Ping") /\ Succeeded("Packages.Get")
         /\ \/ Succeeded("Images.Get")
            \/ /\ Succeeded("Images.List")
               /\ \E i \in 1..Len(last.images) : TritonImage = last.images[i].ID

\* the list lookup answered and selected nothing: the check stops before GetPackage
C25_Witness ==
  /\ Checked
  /\ CallOrder = <<"Ping", "Images.Get", "Images.List">>
  /\ Succeeded("Images.List") /\ last.err = "Images.Get"

\* C26: Create does not look at the stored identifier: with one stored it still submits
\* its CreateInstance request unless the client or the SSH key fails, and when the remote
\* accepts the request the stored identifier is replaced by the new one while the
\* instance it named before is still there at the remote, no longer referred to
C26_CreateOverwritesMachineId ==
  (last.op = "Create" /\ pre.machineId # EmptyStr) =>
    /\ last.err \notin {"client", "createSSHKey"} => CreateRequests = {1}
    /\ Succeeded("Instances.Create") =>
         /\ TritonMachineId \in MachineIds \ {pre.machineId}
         /\ instances[TritonMachineId] = "live"
         /\ instances[pre.machineId] \in {"live", "deleted"}

\* a second instance created by a driver whose first one is still live
C26_Witness ==
  /\ last.op = "Create" /\ Succeeded("Instances.Create")
  /\ pre.machineId = <<"m", "1">> /\ instances[<<"m", "1">>] = "live"
  /\ TritonMachineId = <<"m", "2">> /\ instances[<<"m", "2">>] = "live"

\* the identifiers of the entries of the list response
ListedIds == { last.images[i].ID : i \in 1..Len(last.images) }

\* C27: PreCreateCheck leaves the package reference, the stored identifier and the
\* cached address alone and changes the image reference only to the identifier of an
\* entry the heuristic selected from the list response; the change is made before the
\* package is validated, so it stays when the check fails at the package
C27_PreCreateCheckFrame ==
  [][last'.op = "PreCreateCheck" =>
       /\ TritonPackage' = TritonPackage
       /\ TritonMachineId' = TritonMachineId
       /\ IPAddress' = IPAddress
       /\ TritonImage' # TritonImage =>
            /\ Heuristic' /\ last'.err \in {NoErr, "Packages.Get"}
            /\ TritonImage' \in ListedIds'
       /\ (Heuristic' /\ last'.err = "Packages.Get") => TritonImage' \in ListedIds']_vars

\* a check that failed at the package, the name d already replaced by the identifier e
C27_Witness ==
  /\ Heuristic /\ last.err = "Packages.Get"
  /\ pre.image = <<"d">> /\ TritonImage = <<"e">>
  /\ TritonMachineId = <<"m", "1">> /\ IPAddress # EmptyStr

\* C28: after a PreCreateCheck that returned nil, a further PreCreateCheck that the
\* unchanged remote answers returns nil as well, by the exact lookup and with no
\* ListImages call, and leaves the image reference as the first run set it
C28_PreCreateCheckIdempotent ==
  (Checked /\ last.err = NoErr) =>
    LET r == PreCreateCheckRun(TritonImage, TritonPackage, catalog, {})
    IN /\ r.err = NoErr
       /\ r.image = TritonImage
       /\ \A i \in 1..Len(r.calls) : r.calls[i].api # "Images.List"

\* the second run: the reference is an identifier that no flag value is, so a first run
\* has put it there, and the exact lookup has found it
C28_Witness ==
  /\ Checked /\ last.err = NoErr
  /\ pre.image = <<"d", "-", "1">> /\ pre.image \notin ImageRefs
  /\ Succeeded("Images.Get") /\ ~Called("Images.List")
  /\ TritonImage = pre.image

\* C29: a Create whose request succeeded and whose address wait ran out returns the
\* WaitFor error with the stored identifier set to the new instance, which is still
\* live at the remote, so that a Remove then deletes that instance; a Create that
\* returns nil leaves both the stored identifier and the cached address non-empty
C29_TimeoutKeepsMachineId ==
  /\ (last.op = "Create" /\ last.err = "WaitFor") =>
       /\ Succeeded("Instances.Create")
       /\ TritonMachineId \in MachineIds \ {pre.machineId}
       /\ instances[TritonMachineId] = "live"
       /\ ~Called("Instances.Delete")
       /\ ENABLED (Remove /\ last'.calls = << Call("Instances.Delete", TritonMachineId, TRUE) >>)
  /\ (last.op = "Create" /\ pc = "idle" /\ last.err = NoErr) =>
       (TritonMachineId # EmptyStr /\ IPAddress # EmptyStr)

\* the wait of a new driver ran out: the instance is there and no address is cached
C29_Witness ==
  /\ last.op = "Create" /\ last.err = "WaitFor"
  /\ pre.machineId = EmptyStr /\ TritonMachineId = <<"m", "1">>
  /\ instances[<<"m", "1">>] = "live"
  /\ IPAddress = EmptyStr

Operations == {"Start", "Stop", "Restart", "Kill", "Remove"}

\* C30: a successful fetch of the record in GetState, or in GetIP with nothing cached,
\* leaves the primary address of the record as the cached address, also when an
\* address was cached and the record has none or another one; Start, Stop, Restart,
\* Kill and Remove leave the cached address as it was
C30_FetchOverwritesAddress ==
  /\ (last.op \in {"GetState", "GetIP"} /\ Succeeded("Instances.Get")) =>
       IPAddress = last.record.PrimaryIP
  /\ last.op \in Operations => IPAddress = pre.ip

\* a GetState that replaced the cached address by the empty one of the record
C30_Witness ==
  /\ last.op = "GetState" /\ Succeeded("Instances.Get")
  /\ pre.ip = <<"1">>
  /\ last.record.PrimaryIP = EmptyStr /\ IPAddress = EmptyStr

====
